---- MODULE Spec2Model ----
(***************************************************************************)
(* Label matching and clustering of og_perso:                              *)
(*   utils/UtilsMatching.py   compute_similarity_matrix,                   *)
(*                            create_matched_dataframe, process_clusters   *)
(*   utils/UtilsDQAnalysis.py id_generator                                 *)
(*                                                                         *)
(* A label is a sequence of one-character strings; NaN is the missing      *)
(* value of pandas.  A similarity score and a threshold are exact          *)
(* fractions <<numerator, denominator>> with a positive denominator.       *)
(* A data frame is a sequence of rows (records), in row order.             *)
(***************************************************************************)
EXTENDS Integers, Sequences, FiniteSets, TLC

VARIABLES
    main_df,              \* the full record set (main_df / self.df_processed)
    matching_threshold,   \* the threshold passed to create_matched_dataframe
    matching_algorithms,  \* the list of algorithm identifiers passed to it
    working_df,           \* create_matched_dataframe: one row per distinct non-null label
    label_pairs,          \* compute_similarity_matrix: the enumerated label pairs
    similarities,         \* compute_similarity_matrix: the scores computed so far
    similarity_df,        \* compute_similarity_matrix: the retained pairs with their score
    clustered_df,         \* result of create_matched_dataframe, then updated by process_clusters
    progress,             \* how far compute_similarity_matrix got
    error,                \* the exception that ended the call, or "None"
    pc,                   \* position of the caller
    data_source,          \* DataProcessor.data_source ("none": the functions are called directly)
    source_file,          \* the rows of the input file read by load_data
    rejected_data_df,     \* DataProcessor.rejected_data_df
    dict_label,           \* DataProcessor.dict_label
    prev_run,             \* outcome of an earlier completed call on the same records, or NoRun
    list_label,           \* rename_clusters: the member labels of one cluster (list_label)
    final_label           \* rename_clusters: the canonical label derived from list_label

vars == <<main_df, matching_threshold, matching_algorithms, working_df, label_pairs,
          similarities, similarity_df, clustered_df, progress, error, pc,
          data_source, source_file, rejected_data_df, dict_label, prev_run,
          list_label, final_label>>

pipeline_vars == <<data_source, source_file, rejected_data_df, dict_label>>

label_vars == <<list_label, final_label>>

----------------------------------------------------------------------------
(* Bounds of the model *)

MaxRecords == 4

NumIds == 2

MaxFileRows == 3

MaxRerunRecords == 3

MaxMembers == 3

----------------------------------------------------------------------------
(* Values *)

NaN == <<"NaN">>

NaNSize == -1

NoRun == [kind |-> "none", threshold |-> <<0, 1>>, order |-> << >>,
          retained |-> {}, partition |-> {}]

Empty == << >>

LabA == <<"a", "a", "a", "a">>

LabB == <<"a", "a", "b", "b">>

LabC == <<"b", "b", "b", "b">>

LabelPool == {Empty, LabA, LabB, LabC}

LEVENSHTEIN == "levenshtein"

DAMERAU_LEVENSHTEIN == "damerau_levenshtein"

JACCARD == "jaccard"

JAROWINKLER == "jaro_winkler"

COSINE == "cosine"

MatchingAlgorithm == {LEVENSHTEIN, DAMERAU_LEVENSHTEIN, JACCARD, JAROWINKLER, COSINE}

UnknownAlgo == "soundex"

Frac(n, d) == <<n, d>>

Geq(x, y) == x[1] * y[2] >= y[1] * x[2]

Max2(a, b) == IF a >= b THEN a ELSE b

Min2(a, b) == IF a <= b THEN a ELSE b

Range(s) == {s[i] : i \in DOMAIN s}

----------------------------------------------------------------------------
(* textdistance: normalized similarities *)

RECURSIVE LevFill(_, _, _, _)
LevFill(prev, ch, b, row) ==
    IF Len(row) = Len(b) + 1 THEN row
    ELSE LET j == Len(row)
             cost == IF b[j] = ch THEN 0 ELSE 1
             v == Min2(Min2(prev[j + 1] + 1, row[j] + 1), prev[j] + cost)
         IN LevFill(prev, ch, b, Append(row, v))

RECURSIVE LevRows(_, _, _)
LevRows(a, b, prev) ==
    IF a = << >> THEN prev
    ELSE LevRows(Tail(a), b, LevFill(prev, Head(a), b, <<prev[1] + 1>>))

LevenshteinDistance(a, b) ==
    LevRows(a, b, [j \in 1..(Len(b) + 1) |-> j - 1])[Len(b) + 1]

LevenshteinSimilarity(a, b) ==
    LET maximum == Max2(Len(a), Len(b))
    IN IF maximum = 0 THEN Frac(1, 1)
       ELSE Frac(maximum - LevenshteinDistance(a, b), maximum)

Count(s, ch) == Cardinality({i \in DOMAIN s : s[i] = ch})

RECURSIVE SumOver(_, _, _, _)
SumOver(chars, a, b, useMin) ==
    IF chars = {} THEN 0
    ELSE LET ch == CHOOSE c \in chars : TRUE
             n == IF useMin THEN Min2(Count(a, ch), Count(b, ch))
                  ELSE Max2(Count(a, ch), Count(b, ch))
         IN n + SumOver(chars \ {ch}, a, b, useMin)

JaccardSimilarity(a, b) ==
    IF a = b THEN Frac(1, 1)
    ELSE IF a = << >> \/ b = << >> THEN Frac(0, 1)
    ELSE LET chars == Range(a) \cup Range(b)
         IN Frac(SumOver(chars, a, b, TRUE), SumOver(chars, a, b, FALSE))

NormalizedSimilarity(algo, a, b) ==
    CASE algo = LEVENSHTEIN -> LevenshteinSimilarity(a, b)
      [] algo = JACCARD -> JaccardSimilarity(a, b)

----------------------------------------------------------------------------
(* UtilsDQAnalysis.id_generator: a random identifier; nothing prevents two  *)
(* calls from returning the same one.                                      *)

IdGenerator == {<<"id", k>> : k \in 1..NumIds}

----------------------------------------------------------------------------
(* compute_similarity_matrix *)

NoneFn == "None"

AlgorithmMapping(algo) == IF algo \in MatchingAlgorithm THEN algo ELSE NoneFn

MatchingFunctions(algos) == [i \in DOMAIN algos |-> AlgorithmMapping(algos[i])]

NoneInFirstOnly(fns) == fns # << >> /\ fns[1] = NoneFn

NoneIn(fns) == \E i \in DOMAIN fns : fns[i] = NoneFn

RECURSIVE DropDuplicates(_, _)
DropDuplicates(rows, seen) ==
    IF rows = << >> THEN << >>
    ELSE LET r == Head(rows)
         IN IF r.label \in seen THEN DropDuplicates(Tail(rows), seen)
            ELSE <<r>> \o DropDuplicates(Tail(rows), seen \cup {r.label})

DropNa(rows) == SelectSeq(rows, LAMBDA r : r.label # NaN)

RECURSIVE Unique(_, _)
Unique(labels, seen) ==
    IF labels = << >> THEN << >>
    ELSE IF Head(labels) \in seen THEN Unique(Tail(labels), seen)
    ELSE <<Head(labels)>> \o Unique(Tail(labels), seen \cup {Head(labels)})

RECURSIVE Combinations2(_)
Combinations2(s) ==
    IF Len(s) < 2 THEN << >>
    ELSE [j \in 1..(Len(s) - 1) |-> <<s[1], s[j + 1]>>] \o Combinations2(Tail(s))

RECURSIVE MaxFrac(_)
MaxFrac(scores) ==
    IF Len(scores) = 1 THEN scores[1]
    ELSE LET rest == MaxFrac(Tail(scores))
         IN IF Geq(Head(scores), rest) THEN Head(scores) ELSE rest

PairScore(fns, pair) ==
    MaxFrac([i \in DOMAIN fns |-> NormalizedSimilarity(fns[i], pair[1], pair[2])])

Mask(score, threshold) == Geq(score, threshold)

FilteredLabelPairs(pairs, scores, threshold) ==
    LET kept == SelectSeq([i \in DOMAIN pairs |-> i],
                          LAMBDA i : Mask(scores[i], threshold))
    IN [k \in DOMAIN kept |->
          [Combinations |-> pairs[kept[k]], Final_score |-> scores[kept[k]]]]

ComputeSimilarityMatrix(df, threshold, algos) ==
    LET matching_functions == MatchingFunctions(algos)
        unique_labels == Unique([i \in DOMAIN df |-> df[i].label], {})
        pairs == Combinations2(unique_labels)
        scores == [i \in DOMAIN pairs |-> PairScore(matching_functions, pairs[i])]
        raised(p, e, lp) ==
            [progress |-> p, error |-> e, label_pairs |-> lp,
             similarities |-> << >>, similarity_df |-> << >>]
    IN IF NoneIn(matching_functions)
       THEN raised("validating", "UnknownAlgorithm", << >>)
       ELSE IF pairs = << >>
       THEN raised("enumerated", "Unpack", pairs)
       ELSE IF matching_functions = << >>
       THEN raised("scoring", "MaxEmpty", pairs)
       ELSE IF \E i \in DOMAIN matching_functions : matching_functions[i] = NoneFn
       THEN raised("scoring", "AttributeError", pairs)
       ELSE [progress |-> "returned", error |-> "None", label_pairs |-> pairs,
             similarities |-> scores,
             similarity_df |-> FilteredLabelPairs(pairs, scores, threshold)]

----------------------------------------------------------------------------
(* create_matched_dataframe *)

Columns(rows) == [i \in DOMAIN rows |-> [key |-> rows[i].key, label |-> rows[i].label]]

WorkingDf(df) == Columns(DropDuplicates(DropNa(df), {}))

RECURSIVE MatchedDf(_, _, _)
MatchedDf(w, matched_labels, gid) ==
    IF matched_labels = << >> THEN << >>
    ELSE LET n == Len(matched_labels)
             df_tmp == SelectSeq(w, LAMBDA r : r.label \in Range(matched_labels[n]))
         IN MatchedDf(w, SubSeq(matched_labels, 1, n - 1), gid)
            \o [i \in DOMAIN df_tmp |->
                  [key |-> df_tmp[i].key, label |-> df_tmp[i].label, cluster_id |-> gid[n]]]

FlattenedMatchedLabels(matched_labels) ==
    UNION {Range(matched_labels[i]) : i \in DOMAIN matched_labels}

UnmatchedDf(w, matched_labels) ==
    SelectSeq(w, LAMBDA r : r.label \notin FlattenedMatchedLabels(matched_labels))

ResultDf(w, matched_labels, gid, uid) ==
    LET u == UnmatchedDf(w, matched_labels)
    IN [i \in DOMAIN u |-> [key |-> u[i].key, label |-> u[i].label, cluster_id |-> uid[i]]]
       \o MatchedDf(w, matched_labels, gid)

CreateMatchedDataframe ==
    /\ pc = "call"
    /\ \E w \in {WorkingDf(main_df)} :
       \E r \in {ComputeSimilarityMatrix(w, matching_threshold, matching_algorithms)} :
       \E matched_labels \in {[i \in DOMAIN r.similarity_df |-> r.similarity_df[i].Combinations]} :
          /\ working_df' = w
          /\ label_pairs' = r.label_pairs
          /\ similarities' = r.similarities
          /\ similarity_df' = r.similarity_df
          /\ progress' = r.progress
          /\ IF r.error # "None"
             THEN error' = r.error /\ pc' = "failed" /\ clustered_df' = << >>
             ELSE IF r.similarity_df = << >>
             THEN error' = "NoMatch" /\ pc' = "failed" /\ clustered_df' = << >>
             ELSE /\ error' = "None"
                  /\ pc' = "matched"
                  /\ \E gid \in [DOMAIN matched_labels -> IdGenerator] :
                       \E uid \in [DOMAIN UnmatchedDf(w, matched_labels) -> IdGenerator] :
                          clustered_df' = ResultDf(w, matched_labels, gid, uid)
    /\ UNCHANGED <<main_df, matching_threshold, matching_algorithms, pipeline_vars, prev_run, label_vars>>

----------------------------------------------------------------------------
(* process_clusters *)

GroupedClusters(cdf, cid) == {cdf[i].key : i \in {j \in DOMAIN cdf : cdf[j].cluster_id = cid}}

UnicityKeyList(cdf) == [i \in DOMAIN cdf |-> GroupedClusters(cdf, cdf[i].cluster_id)]

GraphNodes(keyLists) == UNION Range(keyLists)

GraphEdges(keyLists) ==
    UNION {{{a, b} : a, b \in keyLists[i]} : i \in DOMAIN keyLists} \ {{k} : k \in GraphNodes(keyLists)}

Neighbours(edges, S) == S \cup {k \in UNION edges : \E n \in S : {n, k} \in edges}

RECURSIVE Reachable(_, _)
Reachable(edges, S) ==
    LET N == Neighbours(edges, S)
    IN IF N = S THEN S ELSE Reachable(edges, N)

DirectOnly(edges, k) == Neighbours(edges, {k})

ConnectedComponent(edges, k) == Reachable(edges, {k})

RECURSIVE ConnectedClusters(_, _, _)
ConnectedClusters(cdf, edges, seen) ==
    IF cdf = << >> THEN << >>
    ELSE IF Head(cdf).key \in seen THEN ConnectedClusters(Tail(cdf), edges, seen)
    ELSE LET c == ConnectedComponent(edges, Head(cdf).key)
         IN <<c>> \o ConnectedClusters(Tail(cdf), edges, seen \cup c)

ClusterName(i) == <<"cluster", i - 1>>

KeyToClusterId(clusters, key) ==
    LET last == CHOOSE i \in DOMAIN clusters :
                    /\ key \in clusters[i]
                    /\ \A j \in DOMAIN clusters : key \in clusters[j] => j <= i
    IN ClusterName(last)

RelabelledDf(cdf) ==
    LET clusters == ConnectedClusters(cdf, GraphEdges(UnicityKeyList(cdf)), {})
    IN [i \in DOMAIN cdf |->
          [key |-> cdf[i].key, label |-> cdf[i].label,
           cluster_id |-> KeyToClusterId(clusters, cdf[i].key)]]

LabelToClusterId(cdf, label) ==
    IF \E i \in DOMAIN cdf : cdf[i].label = label
    THEN LET last == CHOOSE i \in DOMAIN cdf :
                        /\ cdf[i].label = label
                        /\ \A j \in DOMAIN cdf : cdf[j].label = label => j <= i
         IN cdf[last].cluster_id
    ELSE NaN

FirstKeyToClusterId(cdf, row) ==
    IF \E i \in DOMAIN cdf : cdf[i].key = row.key
    THEN cdf[CHOOSE i \in DOMAIN cdf : cdf[i].key = row.key].cluster_id
    ELSE NaN

MapClusterId(cdf, row) == LabelToClusterId(cdf, row.label)

ClusterSize(df, cid) ==
    IF cid = NaN THEN NaNSize
    ELSE Cardinality({i \in DOMAIN df : df[i].cluster_id = cid})

AnnotatedDf(cdf, df) ==
    LET mapped == [i \in DOMAIN df |-> [df[i] EXCEPT !.cluster_id = MapClusterId(cdf, df[i])]]
    IN [i \in DOMAIN mapped |->
          [mapped[i] EXCEPT !.cluster_size = ClusterSize(mapped, mapped[i].cluster_id)]]

ProcessClusters ==
    /\ pc = "matched"
    /\ clustered_df' = RelabelledDf(clustered_df)
    /\ main_df' = AnnotatedDf(clustered_df', main_df)
    /\ pc' = "clustered"
    /\ UNCHANGED <<matching_threshold, matching_algorithms, working_df, label_pairs,
                   similarities, similarity_df, progress, error, pipeline_vars, prev_run, label_vars>>

----------------------------------------------------------------------------
(* Inputs: a data frame of at most MaxRecords rows, keyed by row index,    *)
(* with a threshold and a list of algorithm identifiers.                   *)

SeqUpTo(S, n) == UNION {[1..k -> S] : k \in 0..n}

InputDf(labels) ==
    [i \in DOMAIN labels |->
       [key |-> i - 1, label |-> labels[i], cluster_id |-> NaN, cluster_size |-> NaNSize]]

Configs ==
    {<<Frac(0, 1), <<LEVENSHTEIN>> >>,
     <<Frac(1, 2), <<LEVENSHTEIN>> >>,
     <<Frac(3, 2), <<LEVENSHTEIN>> >>,
     <<Frac(1, 3), <<JACCARD>> >>,
     <<Frac(1, 2), <<JACCARD>> >>,
     <<Frac(1, 2), <<JACCARD, LEVENSHTEIN>> >>,
     <<Frac(1, 2), << >> >>,
     <<Frac(1, 2), <<UnknownAlgo>> >>,
     <<Frac(1, 2), <<LEVENSHTEIN, UnknownAlgo>> >>,
     <<Frac(3, 2), <<LEVENSHTEIN, UnknownAlgo>> >>}

Init ==
    /\ main_df \in {InputDf(labels) : labels \in SeqUpTo(LabelPool \cup {NaN}, MaxRecords)}
    /\ \E c \in Configs : matching_threshold = c[1] /\ matching_algorithms = c[2]
    /\ working_df = << >>
    /\ label_pairs = << >>
    /\ similarities = << >>
    /\ similarity_df = << >>
    /\ clustered_df = << >>
    /\ progress = "none"
    /\ error = "None"
    /\ pc = "call"
    /\ data_source = "none"
    /\ source_file = << >>
    /\ rejected_data_df = << >>
    /\ dict_label = << >>
    /\ prev_run = NoRun
    /\ list_label = << >>
    /\ final_label = NaN

Next == CreateMatchedDataframe \/ ProcessClusters

Spec == Init /\ [][Next]_vars

----------------------------------------------------------------------------
(* Text helpers of UtilsDQAnalysis (str.lower, str.split, re.sub).  The    *)
(* texts of the model are ASCII (letters, digits, spaces, punctuation), on *)
(* which normalize_text changes nothing; whitespace is the space.          *)

UpperCase ==
    <<"A", "B", "C", "D", "E", "F", "G", "H", "I", "J", "K", "L", "M",
      "N", "O", "P", "Q", "R", "S", "T", "U", "V", "W", "X", "Y", "Z">>

LowerCase ==
    <<"a", "b", "c", "d", "e", "f", "g", "h", "i", "j", "k", "l", "m",
      "n", "o", "p", "q", "r", "s", "t", "u", "v", "w", "x", "y", "z">>

DigitChars == {"0", "1", "2", "3", "4", "5", "6", "7", "8", "9"}

ToLower(c) ==
    IF c \in Range(UpperCase)
    THEN LowerCase[CHOOSE i \in DOMAIN UpperCase : UpperCase[i] = c]
    ELSE c

Lower(s) == [i \in DOMAIN s |-> ToLower(s[i])]

IsSpace(c) == c = " "

IsWord(c) == c \in Range(UpperCase) \cup Range(LowerCase) \cup DigitChars \cup {"_"}

WordAt(s, i) == i \in DOMAIN s /\ IsWord(s[i])

Boundary(s, i) == WordAt(s, i - 1) # WordAt(s, i)

CharIs(s, i, c, ignoreCase) ==
    /\ i \in DOMAIN s
    /\ IF ignoreCase THEN ToLower(s[i]) = ToLower(c) ELSE s[i] = c

RECURSIVE SkipSpaces(_, _)
SkipSpaces(s, i) == IF i \in DOMAIN s /\ IsSpace(s[i]) THEN SkipSpaces(s, i + 1) ELSE i

RECURSIVE SkipDigits(_, _)
SkipDigits(s, i) == IF i \in DOMAIN s /\ s[i] \in DigitChars THEN SkipDigits(s, i + 1) ELSE i

TextAt(s, i, text, ignoreCase) == \A k \in DOMAIN text : CharIs(s, i + k - 1, text[k], ignoreCase)

Litre == <<"l", "i", "t", "r", "e">>

(* MatchEnd: the position after the match of a pattern that starts at i,   *)
(* or 0 when the pattern does not match at i.                              *)
MatchEnd(pat, s, i) ==
    CASE pat = "XmX" ->          \* \bX\s*mX\b, re.I
           LET j == SkipSpaces(s, i + 1)
           IN IF /\ Boundary(s, i) /\ CharIs(s, i, "x", TRUE)
                 /\ TextAt(s, j, <<"m", "x">>, TRUE) /\ Boundary(s, j + 2)
              THEN j + 2 ELSE 0
      [] pat = "X mX" ->         \* \bX\s+mX\b
           LET j == SkipSpaces(s, i + 1)
           IN IF /\ Boundary(s, i) /\ CharIs(s, i, "X", FALSE) /\ j > i + 1
                 /\ TextAt(s, j, <<"m", "X">>, FALSE) /\ Boundary(s, j + 2)
              THEN j + 2 ELSE 0
      [] pat = "Xl" ->           \* \bX\s*l\b, re.I
           LET j == SkipSpaces(s, i + 1)
           IN IF /\ Boundary(s, i) /\ CharIs(s, i, "x", TRUE)
                 /\ CharIs(s, j, "l", TRUE) /\ Boundary(s, j + 1)
              THEN j + 1 ELSE 0
      [] pat = "X l" ->          \* \bX\s+l\b
           LET j == SkipSpaces(s, i + 1)
           IN IF /\ Boundary(s, i) /\ CharIs(s, i, "X", FALSE) /\ j > i + 1
                 /\ CharIs(s, j, "l", FALSE) /\ Boundary(s, j + 1)
              THEN j + 1 ELSE 0
      [] pat = "litre" ->        \* \s?litre[s]?, re.I
           LET k == IF IsSpace(s[i]) /\ TextAt(s, i + 1, Litre, TRUE) THEN i + 1 ELSE i
           IN IF TextAt(s, k, Litre, TRUE)
              THEN IF CharIs(s, k + 5, "s", TRUE) THEN k + 6 ELSE k + 5
              ELSE 0
      [] pat = "ZX" ->           \* \bZX\b
           IF Boundary(s, i) /\ TextAt(s, i, <<"Z", "X">>, FALSE) /\ Boundary(s, i + 2)
           THEN i + 2 ELSE 0
      [] pat = "d.d" ->          \* (?<=\d)[,.](?=\d)
           IF /\ s[i] \in {",", "."}
              /\ i - 1 \in DOMAIN s /\ s[i - 1] \in DigitChars
              /\ i + 1 \in DOMAIN s /\ s[i + 1] \in DigitChars
           THEN i + 1 ELSE 0
      [] pat = "d d" ->          \* \b(\d+)\s+(\d+)\b
           LET j == SkipDigits(s, i)
               k == SkipSpaces(s, j)
               e == SkipDigits(s, k)
           IN IF Boundary(s, i) /\ j > i /\ k > j /\ e > k /\ Boundary(s, e)
              THEN e ELSE 0
      [] pat = "digits" ->       \* (?<!K)\d+
           IF s[i] \in DigitChars /\ ~CharIs(s, i - 1, "K", FALSE)
           THEN SkipDigits(s, i) ELSE 0
      [] pat = "punct" ->        \* [^a-zA-Z0-9\s%]
           IF (IsWord(s[i]) /\ s[i] # "_") \/ IsSpace(s[i]) \/ s[i] = "%" THEN 0 ELSE i + 1
      [] pat = "spaces" ->       \* \s+
           IF IsSpace(s[i]) THEN SkipSpaces(s, i) ELSE 0

RECURSIVE SubFrom(_, _, _, _)
SubFrom(pat, repl, s, i) ==
    IF i > Len(s) THEN << >>
    ELSE LET e == MatchEnd(pat, s, i)
             r == IF pat = "d d"       \* the replacement \1\2: the match without its spaces
                  THEN SelectSeq(SubSeq(s, i, e - 1), LAMBDA c : ~IsSpace(c))
                  ELSE repl
         IN IF e > 0 THEN r \o SubFrom(pat, repl, s, e)
            ELSE <<s[i]>> \o SubFrom(pat, repl, s, i + 1)

Sub(pat, repl, s) == SubFrom(pat, repl, s, 1)

RECURSIVE Strip(_)
Strip(s) ==
    IF s = << >> THEN s
    ELSE IF IsSpace(Head(s)) THEN Strip(Tail(s))
    ELSE IF IsSpace(s[Len(s)]) THEN Strip(SubSeq(s, 1, Len(s) - 1))
    ELSE s

RECURSIVE Split(_)
Split(s) ==
    LET t == Strip(s)
    IN IF t = << >> THEN << >>
       ELSE LET n == CHOOSE k \in 1..Len(t) :
                        /\ \A i \in 1..k : ~IsSpace(t[i])
                        /\ (k = Len(t) \/ IsSpace(t[k + 1]))
            IN <<SubSeq(t, 1, n)>> \o Split(SubSeq(t, n + 1, Len(t)))

RECURSIVE Join(_)
Join(words) ==
    IF words = << >> THEN << >>
    ELSE IF Len(words) = 1 THEN words[1]
    ELSE words[1] \o <<" ">> \o Join(Tail(words))

Contains(s, text) ==
    \E i \in 1..(Len(s) - Len(text) + 1) : TextAt(s, i, text, TRUE)

ProcessLabelCcap(label) ==
    IF label = NaN \/ label = << >> THEN << >>
    ELSE Strip(Sub("spaces", <<" ">>,
                   Sub("punct", <<" ">>,
                       Sub("digits", <<"X">>,
                           Sub("d d", << >>, Sub("d.d", << >>, label))))))

ProcessLabelClear(label) ==
    IF label = NaN \/ label = << >> THEN << >>
    ELSE Sub("X l", <<"x", "L">>, Sub("X mX", <<"x", "m", "x">>, ProcessLabelCcap(label)))

CommonWordsCaseSensitive(string_list) ==
    LET word_sets == [i \in DOMAIN string_list |-> Range(Split(string_list[i]))]
        common_words == {w \in word_sets[1] : \A i \in DOMAIN word_sets : w \in word_sets[i]}
    IN Join(SelectSeq(Split(string_list[1]), LAMBDA w : w \in common_words))

FirstLabelWhenNoCommon(string_list) ==
    LET word_sets == [i \in DOMAIN string_list |-> Range(Split(Lower(string_list[i])))]
        common_words == {w \in word_sets[1] : \A i \in DOMAIN word_sets : w \in word_sets[i]}
    IN IF common_words = {} THEN string_list[1]
       ELSE Join(SelectSeq(Split(string_list[1]), LAMBDA w : Lower(w) \in common_words))

FindCommonWordsWithOrder(string_list) ==
    LET word_sets == [i \in DOMAIN string_list |-> Range(Split(Lower(string_list[i])))]
        common_words == {w \in word_sets[1] : \A i \in DOMAIN word_sets : w \in word_sets[i]}
    IN Join(SelectSeq(Split(string_list[1]), LAMBDA w : Lower(w) \in common_words))

PostprocessFinalLabel(label) ==
    IF label = NaN \/ label = << >> THEN << >>
    ELSE Strip(Sub("ZX", << >>,
                   Sub("Xl", <<"X", "L">>,
                       Sub("litre", <<" ", "L">>,
                           Sub("XmX", <<"X", "m", "3">>, label)))))

----------------------------------------------------------------------------
(* DataProcessor (Scripts/SuezMain.py): load_data, cleanse_data,           *)
(* cluster_data (the two actions above) and rename_clusters.               *)
(* run_dq_analysis only adds the completeness, uniqueness, pattern and     *)
(* length columns, which no later step reads; they are left out.           *)

CLEAR == "clear"

CCAP == "ccap"

Text(str) ==
    CASE str = "Aaaa" -> <<"A", "a", "a", "a">>
      [] str = "aabb" -> <<"a", "a", "b", "b">>
      [] str = "aa-bb" -> <<"a", "a", "-", "b", "b">>
      [] str = "Dryrun" -> <<"D", "r", "y", "r", "u", "n">>
      [] str = "dryrun" -> <<"d", "r", "y", "r", "u", "n">>
      [] str = "ne plus utiliser" ->
           <<"n", "e", " ", "p", "l", "u", "s", " ", "u", "t", "i", "l", "i", "s", "e", "r">>
      [] str = "Ne plus utiliser-dryrun" ->
           <<"N", "e", " ", "p", "l", "u", "s", " ", "u", "t", "i", "l", "i", "s", "e", "r",
             "-", "d", "r", "y", "r", "u", "n">>
      [] str = "Rotation Benne 10m3" ->
           <<"R", "o", "t", "a", "t", "i", "o", "n", " ", "B", "e", "n", "n", "e", " ", "1", "0", "m", "3">>
      [] str = "Rotation Benne 10 m3" ->
           <<"R", "o", "t", "a", "t", "i", "o", "n", " ", "B", "e", "n", "n", "e", " ", "1", "0", " ", "m", "3">>
      [] str = "Rotation Benne" ->
           <<"R", "o", "t", "a", "t", "i", "o", "n", " ", "B", "e", "n", "n", "e">>
      [] str = "rotation BENNE" ->
           <<"r", "o", "t", "a", "t", "i", "o", "n", " ", "B", "E", "N", "N", "E">>
      [] str = "Benne Rotation" ->
           <<"B", "e", "n", "n", "e", " ", "R", "o", "t", "a", "t", "i", "o", "n">>
      [] str = "Benne  10 benne " ->
           <<"B", "e", "n", "n", "e", " ", " ", "1", "0", " ", "b", "e", "n", "n", "e", " ">>
      [] str = "Transport" ->
           <<"T", "r", "a", "n", "s", "p", "o", "r", "t">>
      [] str = "Collecte OM 10L" ->
           <<"C", "o", "l", "l", "e", "c", "t", "e", " ", "O", "M", " ", "1", "0", "L">>
      [] str = "Collecte OM 10 L" ->
           <<"C", "o", "l", "l", "e", "c", "t", "e", " ", "O", "M", " ", "1", "0", " ", "L">>
      [] str = "Transport Benne" ->
           <<"T", "r", "a", "n", "s", "p", "o", "r", "t", " ", "B", "e", "n", "n", "e">>
      [] str = "Collecte OM" ->
           <<"C", "o", "l", "l", "e", "c", "t", "e", " ", "O", "M">>
      [] str = "" ->
           << >>

FileRow(interne, commercial) == [interne |-> interne, commercial |-> commercial]

FileRows ==
    {FileRow(NaN, Text("Aaaa")),
     FileRow(Text("aabb"), NaN),
     FileRow(NaN, Text("aa-bb")),
     FileRow(NaN, NaN),
     FileRow(Text("aabb"), Text("Dryrun")),
     FileRow(NaN, Text("ne plus utiliser")),
     FileRow(NaN, Text("Ne plus utiliser-dryrun"))}

LoadedDf(file) ==
    [i \in DOMAIN file |->
       [key |-> i - 1,
        commercial |-> IF file[i].commercial = NaN THEN file[i].interne
                       ELSE file[i].commercial,
        label |-> NaN, raison_rejet |-> NaN, cluster_id |-> NaN, cluster_size |-> NaNSize,
        labelpro |-> NaN, final_label |-> NaN]]

LoadData ==
    /\ pc = "load"
    /\ IF source_file = << >>
       THEN error' = "EmptyFile" /\ pc' = "failed" /\ main_df' = main_df
       ELSE error' = error /\ pc' = "loaded" /\ main_df' = LoadedDf(source_file)
    /\ UNCHANGED <<matching_threshold, matching_algorithms, working_df, label_pairs,
                   similarities, similarity_df, clustered_df, progress, pipeline_vars, prev_run, label_vars>>

ProcessLabel(source, text) ==
    IF source = CCAP THEN ProcessLabelCcap(text) ELSE ProcessLabelClear(text)

IsNePlusUtiliser(label) == Contains(label, Text("ne plus utiliser"))

IsDryrun(label) == Contains(label, Text("dryrun"))

RaisonRejet(label) ==
    IF IsDryrun(label) THEN "DRYRUN"
    ELSE IF IsNePlusUtiliser(label) THEN "NE PLUS UTILISER"
    ELSE NaN

LabelledDf(source, df) ==
    [i \in DOMAIN df |->
       LET l == ProcessLabel(source, df[i].commercial)
       IN [df[i] EXCEPT !.label = l,
                        !.raison_rejet = IF source = CLEAR THEN RaisonRejet(l) ELSE NaN]]

RejectedByPattern(source, df) ==
    IF source = CLEAR
    THEN SelectSeq(df, LAMBDA r : IsNePlusUtiliser(r.label))
         \o SelectSeq(df, LAMBDA r : IsDryrun(r.label))
    ELSE << >>

RejectedDf(source, df) ==
    IF source = CLEAR
    THEN SelectSeq(df, LAMBDA r : r.raison_rejet = "NE PLUS UTILISER")
         \o SelectSeq(df, LAMBDA r : r.raison_rejet = "DRYRUN")
    ELSE << >>

KeptDf(source, df) ==
    IF source = CLEAR
    THEN SelectSeq(df, LAMBDA r : ~IsNePlusUtiliser(r.label) /\ ~IsDryrun(r.label))
    ELSE df

DictLabel(df) ==
    [l \in {Lower(df[i].label) : i \in DOMAIN df} |->
       df[CHOOSE i \in DOMAIN df :
             /\ Lower(df[i].label) = l
             /\ \A j \in DOMAIN df : Lower(df[j].label) = l => j <= i].label]

LowerLabels(df) == [i \in DOMAIN df |-> [df[i] EXCEPT !.label = Lower(df[i].label)]]

CleanseData ==
    /\ pc = "loaded"
    /\ \E labelled \in {LabelledDf(data_source, main_df)} :
       \E kept \in {KeptDf(data_source, labelled)} :
          /\ rejected_data_df' = RejectedDf(data_source, labelled)
          /\ dict_label' = DictLabel(kept)
          /\ main_df' = LowerLabels(kept)
    /\ pc' = "call"
    /\ UNCHANGED <<matching_threshold, matching_algorithms, working_df, label_pairs,
                   similarities, similarity_df, clustered_df, progress, error,
                   data_source, source_file, prev_run, label_vars>>

RECURSIVE SortedIds(_)
SortedIds(cids) ==
    IF cids = {} THEN << >>
    ELSE LET c == CHOOSE x \in cids : \A y \in cids : x[2] <= y[2]
         IN <<c>> \o SortedIds(cids \ {c})

ClusterLabelData(df) ==
    LET ids == SortedIds({df[i].cluster_id : i \in DOMAIN df} \ {NaN})
    IN [k \in DOMAIN ids |->
          LET members == SelectSeq(df, LAMBDA r : r.cluster_id = ids[k])
          IN [cluster_id |-> ids[k],
              final_label |-> PostprocessFinalLabel(
                  FindCommonWordsWithOrder([i \in DOMAIN members |-> members[i].labelpro]))]]

RECURSIVE MergeOnClusterId(_, _)
MergeOnClusterId(cld, df) ==
    IF cld = << >> THEN << >>
    ELSE LET rows == SelectSeq(df, LAMBDA r : r.cluster_id = Head(cld).cluster_id)
         IN [i \in DOMAIN rows |-> [rows[i] EXCEPT !.final_label = Head(cld).final_label]]
            \o MergeOnClusterId(Tail(cld), df)

RenamedDf(dict, df) ==
    LET with_pro == [i \in DOMAIN df |->
                       [df[i] EXCEPT !.labelpro = IF df[i].label \in DOMAIN dict
                                                  THEN dict[df[i].label] ELSE NaN]]
        merged == MergeOnClusterId(ClusterLabelData(with_pro), with_pro)
    IN [i \in DOMAIN merged |->
          [merged[i] EXCEPT !.labelpro = PostprocessFinalLabel(merged[i].labelpro)]]

RenameClusters ==
    /\ pc = "clustered"
    /\ data_source # "none"
    /\ main_df' = IF data_source = CLEAR
                  THEN RenamedDf(dict_label, main_df) \o rejected_data_df
                  ELSE RenamedDf(dict_label, main_df)
    /\ pc' = "renamed"
    /\ UNCHANGED <<matching_threshold, matching_algorithms, working_df, label_pairs,
                   similarities, similarity_df, clustered_df, progress, error, pipeline_vars, prev_run, label_vars>>

PipelineConfigs == {<<Frac(1, 2), <<LEVENSHTEIN, JACCARD>> >>}

PipelineInit ==
    /\ data_source \in {CLEAR, CCAP}
    /\ source_file \in SeqUpTo(FileRows, MaxFileRows)
    /\ \E c \in PipelineConfigs : matching_threshold = c[1] /\ matching_algorithms = c[2]
    /\ main_df = << >>
    /\ working_df = << >>
    /\ label_pairs = << >>
    /\ similarities = << >>
    /\ similarity_df = << >>
    /\ clustered_df = << >>
    /\ rejected_data_df = << >>
    /\ dict_label = << >>
    /\ prev_run = NoRun
    /\ list_label = << >>
    /\ final_label = NaN
    /\ progress = "none"
    /\ error = "None"
    /\ pc = "load"

PipelineNext ==
    LoadData \/ CleanseData \/ CreateMatchedDataframe \/ ProcessClusters \/ RenameClusters

PipelineSpec == PipelineInit /\ [][PipelineNext]_vars

----------------------------------------------------------------------------
(* Vocabulary of the properties *)

Done == pc = "clustered"

Rows == DOMAIN main_df

PresentLabels == {main_df[i].label : i \in Rows} \ {NaN}

Score(a, b) == PairScore(MatchingFunctions(matching_algorithms), <<a, b>>)

Qualifying(a, b) ==
    /\ a # b
    /\ a \in PresentLabels
    /\ b \in PresentLabels
    /\ Geq(Score(a, b), matching_threshold)

RECURSIVE ChainClosure(_)
ChainClosure(S) ==
    LET N == S \cup {l \in PresentLabels : \E m \in S : Qualifying(m, l)}
    IN IF N = S THEN S ELSE ChainClosure(N)

ChainedTo(a) == UNION {ChainClosure({m}) : m \in {l \in PresentLabels : Qualifying(a, l)}}

Chained(a, b) == b \in ChainedTo(a)

InNoQualifyingPair(l) == \A m \in PresentLabels : ~Qualifying(l, m)

SharesClusterWithAnother(i) ==
    \E j \in Rows : j # i /\ main_df[j].cluster_id = main_df[i].cluster_id

ClusterIds == {main_df[i].cluster_id : i \in Rows} \ {NaN}

Members(cid) == {i \in Rows : main_df[i].cluster_id = cid}

RECURSIVE SumMembers(_)
SumMembers(cids) ==
    IF cids = {} THEN 0
    ELSE LET c == CHOOSE x \in cids : TRUE
         IN Cardinality(Members(c)) + SumMembers(cids \ {c})

ValidAlgorithms ==
    /\ matching_algorithms # << >>
    /\ \A i \in DOMAIN matching_algorithms : matching_algorithms[i] \in MatchingAlgorithm

ThresholdInRange == Geq(matching_threshold, Frac(0, 1)) /\ Geq(Frac(1, 1), matching_threshold)

----------------------------------------------------------------------------
(* C1: after create_matched_dataframe and process_clusters complete, every *)
(* record carries a cluster id and the member counts of the distinct       *)
(* cluster ids add up to the number of records.                            *)
C1_PartitionTotal ==
    Done => /\ \A i \in Rows : main_df[i].cluster_id # NaN
            /\ SumMembers(ClusterIds) = Len(main_df)

(* C2: records whose labels are linked by a chain of qualifying pairs,     *)
(* of any length, end with the same cluster id, also when the two labels   *)
(* do not qualify directly.                                                *)
C2_TransitiveClosure ==
    Done => \A a \in PresentLabels : \A b \in ChainedTo(a) :
              \A i, j \in Rows :
                 (main_df[i].label = a /\ main_df[j].label = b)
                 => /\ main_df[i].cluster_id # NaN
                    /\ main_df[i].cluster_id = main_df[j].cluster_id

C2_Witness ==
    /\ Done
    /\ \E i, j, k \in Rows :
         /\ Qualifying(main_df[i].label, main_df[j].label)
         /\ Qualifying(main_df[j].label, main_df[k].label)
         /\ main_df[i].label # main_df[k].label
         /\ ~Qualifying(main_df[i].label, main_df[k].label)
         /\ main_df[i].cluster_id = main_df[j].cluster_id
         /\ main_df[j].cluster_id = main_df[k].cluster_id

(* C3: two records with different labels receive the same final cluster id *)
(* only if their labels are linked by a chain of qualifying pairs,         *)
(* whatever identifiers id_generator draws.                                *)
C3_ClusterSound ==
    Done => \A i, j \in Rows :
              (main_df[i].label # main_df[j].label
               /\ main_df[i].cluster_id # NaN
               /\ main_df[i].cluster_id = main_df[j].cluster_id)
              => Chained(main_df[i].label, main_df[j].label)

(* C4: every record whose label appears in no qualifying pair is alone in  *)
(* its cluster and has cluster_size 1.                                     *)
C4_UnmatchedSingleton ==
    Done => \A i \in Rows :
              (main_df[i].label # NaN /\ InNoQualifyingPair(main_df[i].label))
              => /\ main_df[i].cluster_size = 1
                 /\ ~SharesClusterWithAnother(i)

(* C5: a record with an empty or null label appears in no retained pair    *)
(* and ends alone in a cluster of size 1.                                  *)
C5_EmptyLabelSafe ==
    /\ \A p \in DOMAIN similarity_df : Empty \notin Range(similarity_df[p].Combinations)
    /\ Done => \A i \in Rows :
                 main_df[i].label \in {Empty, NaN}
                 => /\ main_df[i].cluster_size = 1
                    /\ main_df[i].cluster_id # NaN
                    /\ ~SharesClusterWithAnother(i)

(* C6: after a completed run of the pipeline every row of the input file  *)
(* is present with a non-null cluster id and a positive cluster size,      *)
(* rejected CLEAR rows included.                                           *)
C6_EveryRowAnnotated ==
    pc = "renamed"
    => \A k \in 0..(Len(source_file) - 1) :
          \E i \in DOMAIN main_df :
             /\ main_df[i].key = k
             /\ main_df[i].cluster_id # NaN
             /\ main_df[i].cluster_size >= 1

(* C7: records with the same label receive the same final cluster id, and  *)
(* no label of the clustered frame is associated with two cluster ids.     *)
C7_SameLabelSameCluster ==
    Done => /\ \A i, j \in Rows :
                 (main_df[i].label # NaN /\ main_df[i].label = main_df[j].label)
                 => /\ main_df[i].cluster_id # NaN
                    /\ main_df[i].cluster_id = main_df[j].cluster_id
            /\ \A a, b \in DOMAIN clustered_df :
                 clustered_df[a].label = clustered_df[b].label
                 => clustered_df[a].cluster_id = clustered_df[b].cluster_id

C7_Witness ==
    /\ Done
    /\ \E i, j \in Rows :
         /\ i # j
         /\ main_df[i].label = main_df[j].label
         /\ \E m, n \in PresentLabels :
              /\ m # n
              /\ Qualifying(main_df[i].label, m)
              /\ Qualifying(main_df[i].label, n)
         /\ main_df[i].cluster_id = main_df[j].cluster_id

WorkingLabels == {working_df[i].label : i \in DOMAIN working_df}

QualifyingSet ==
    {{a, b} : a, b \in WorkingLabels} \cap
    {p \in SUBSET WorkingLabels :
        /\ Cardinality(p) = 2
        /\ \E a, b \in p : a # b /\ Geq(Score(a, b), matching_threshold)}

RetainedSet == {Range(similarity_df[i].Combinations) : i \in DOMAIN similarity_df}

ScoredOnce ==
    /\ Len(similarities) = Len(label_pairs)
    /\ \A p \in SUBSET WorkingLabels :
         Cardinality(p) = 2
         => Cardinality({i \in DOMAIN label_pairs : Range(label_pairs[i]) = p}) = 1

(* C8: for distinct labels and a non-empty list of supported algorithms,   *)
(* compute_similarity_matrix returns exactly the unordered pairs whose     *)
(* maximum similarity is at least the threshold, each pair scored once.    *)
C8_ExhaustivePairs ==
    (pc # "call" /\ ValidAlgorithms)
    => /\ progress = "returned"
       /\ ScoredOnce
       /\ RetainedSet = QualifyingSet
       /\ Len(similarity_df) = Cardinality(QualifyingSet)

(* The same statement for a call that returns: with at least two distinct  *)
(* labels the returned pairs are exactly the qualifying pairs.             *)
ExhaustivePairsWhenReturned ==
    progress = "returned"
    => /\ ScoredOnce
       /\ RetainedSet = QualifyingSet
       /\ Len(similarity_df) = Cardinality(QualifyingSet)

(* C9: an identifier outside the supported set, at any position of the     *)
(* list, ends compute_similarity_matrix with the error before any label    *)
(* pair is enumerated or scored, and nothing is produced.                  *)
C9_UnknownAlgorithmFirst ==
    (pc # "call" /\ \E i \in DOMAIN matching_algorithms :
                        matching_algorithms[i] \notin MatchingAlgorithm)
    => /\ pc = "failed"
       /\ error = "UnknownAlgorithm"
       /\ progress = "validating"
       /\ label_pairs = << >>
       /\ similarities = << >>
       /\ similarity_df = << >>
       /\ clustered_df = << >>

C9_Witness ==
    /\ pc = "failed"
    /\ error = "UnknownAlgorithm"
    /\ Len(matching_algorithms) = 2
    /\ matching_algorithms[1] \in MatchingAlgorithm
    /\ Len(working_df) >= 2
    /\ label_pairs = << >>

(* C10: a threshold outside [0,1] and an empty algorithm list are each     *)
(* rejected with an error before any pair is enumerated or scored.         *)
C10_ConfigFailFast ==
    (pc # "call" /\ (~ThresholdInRange \/ matching_algorithms = << >>))
    => /\ pc = "failed"
       /\ progress = "validating"
       /\ label_pairs = << >>
       /\ similarities = << >>

(* C11: with a non-empty list of supported algorithms, whenever no pair    *)
(* of distinct labels reaches the threshold, an input with fewer than two  *)
(* distinct labels included, create_matched_dataframe ends with the error  *)
(* 'No match was found', the caller stops, and no record has a cluster id  *)
(* or a cluster size.                                                      *)
C11_EmptyMatchSet ==
    (pc # "call" /\ ValidAlgorithms /\ QualifyingSet = {})
    => /\ pc = "failed"
       /\ error = "NoMatch"
       /\ clustered_df = << >>
       /\ \A i \in Rows : main_df[i].cluster_id = NaN /\ main_df[i].cluster_size = NaNSize

(* The same statement for an input with at least two distinct labels.      *)
NoMatchWhenScored ==
    (pc # "call" /\ ValidAlgorithms /\ QualifyingSet = {} /\ Len(working_df) >= 2)
    => /\ pc = "failed"
       /\ error = "NoMatch"
       /\ progress = "returned"
       /\ \A i \in Rows : main_df[i].cluster_id = NaN /\ main_df[i].cluster_size = NaNSize

----------------------------------------------------------------------------
(* Two calls on the same records: cluster_data is called, runs to the end, *)
(* and is called again on the same records, either with a threshold that   *)
(* is not lower or with the rows in another order.  prev_run keeps what    *)
(* the first call produced: the retained pairs and the partition of the    *)
(* record keys.                                                            *)

Partition(df) ==
    {{df[i].key : i \in {j \in DOMAIN df : df[j].cluster_id = c}} :
        c \in {df[i].cluster_id : i \in DOMAIN df} \ {NaN}}

RowOrder(df) == [i \in DOMAIN df |-> df[i].key]

RunOutcome(kind) ==
    [kind |-> kind, threshold |-> matching_threshold, order |-> RowOrder(main_df),
     retained |-> RetainedSet, partition |-> Partition(main_df)]

Fresh(df) == [i \in DOMAIN df |-> [df[i] EXCEPT !.cluster_id = NaN, !.cluster_size = NaNSize]]

Reorderings(df) ==
    {[i \in DOMAIN df |-> df[p[i]]] :
        p \in {f \in [DOMAIN df -> DOMAIN df] : \A i, j \in DOMAIN df : f[i] = f[j] => i = j}}

RerunThresholds == {Frac(0, 1), Frac(1, 2)}

RerunConfigs == {<<t, <<LEVENSHTEIN>> >> : t \in RerunThresholds}

CallWithThreshold ==
    /\ pc = "clustered"
    /\ data_source = "none"
    /\ prev_run.kind = "none"
    /\ \E t \in RerunThresholds :
          /\ Geq(t, matching_threshold)
          /\ matching_threshold' = t
    /\ prev_run' = RunOutcome("threshold")
    /\ main_df' = Fresh(main_df)
    /\ working_df' = << >>
    /\ label_pairs' = << >>
    /\ similarities' = << >>
    /\ similarity_df' = << >>
    /\ clustered_df' = << >>
    /\ progress' = "none"
    /\ pc' = "call"
    /\ UNCHANGED <<matching_algorithms, error, pipeline_vars, label_vars>>

CallReordered ==
    /\ pc = "clustered"
    /\ data_source = "none"
    /\ prev_run.kind = "none"
    /\ prev_run' = RunOutcome("reordered")
    /\ main_df' \in Reorderings(Fresh(main_df)) \ {Fresh(main_df)}
    /\ working_df' = << >>
    /\ label_pairs' = << >>
    /\ similarities' = << >>
    /\ similarity_df' = << >>
    /\ clustered_df' = << >>
    /\ progress' = "none"
    /\ pc' = "call"
    /\ UNCHANGED <<matching_threshold, matching_algorithms, error, pipeline_vars, label_vars>>

RerunInit ==
    /\ main_df \in {InputDf(labels) : labels \in SeqUpTo(LabelPool \cup {NaN}, MaxRerunRecords)}
    /\ \E c \in RerunConfigs : matching_threshold = c[1] /\ matching_algorithms = c[2]
    /\ working_df = << >>
    /\ label_pairs = << >>
    /\ similarities = << >>
    /\ similarity_df = << >>
    /\ clustered_df = << >>
    /\ progress = "none"
    /\ error = "None"
    /\ pc = "call"
    /\ data_source = "none"
    /\ source_file = << >>
    /\ rejected_data_df = << >>
    /\ dict_label = << >>
    /\ prev_run = NoRun
    /\ list_label = << >>
    /\ final_label = NaN

RerunNext == CreateMatchedDataframe \/ ProcessClusters \/ CallWithThreshold \/ CallReordered

RerunSpec == RerunInit /\ [][RerunNext]_vars

SecondRunDone(kind) == Done /\ prev_run.kind = kind

(* C12: when a call at threshold t1 and a later call on the same records   *)
(* and algorithms at a threshold t2 >= t1 both complete, the pairs         *)
(* retained at t2 are among those retained at t1, every cluster at t2 lies *)
(* inside a cluster at t1, and there are at least as many clusters at t2.  *)
C12_ThresholdMonotone ==
    SecondRunDone("threshold")
    => /\ RetainedSet \subseteq prev_run.retained
       /\ \A c \in Partition(main_df) : \E d \in prev_run.partition : c \subseteq d
       /\ Cardinality(Partition(main_df)) >= Cardinality(prev_run.partition)

(* The part of C12 about the retained pairs alone.                         *)
RetainedShrinks ==
    SecondRunDone("threshold") => RetainedSet \subseteq prev_run.retained

----------------------------------------------------------------------------
(* Canonical label of one cluster, as rename_clusters derives it: the      *)
(* member list goes through find_common_words_with_order, and the result   *)
(* through postprocess_final_label.                                        *)

MemberTexts ==
    {Text("Rotation Benne 10m3"), Text("Rotation Benne 10 m3"), Text("rotation BENNE"),
     Text("Benne Rotation"), Text("Benne  10 benne "), Text("Transport"), Text("")}

FindCommonWords ==
    /\ pc = "label"
    /\ final_label' = FindCommonWordsWithOrder(list_label)
    /\ pc' = "labelled"
    /\ UNCHANGED <<main_df, matching_threshold, matching_algorithms, working_df, label_pairs,
                   similarities, similarity_df, clustered_df, progress, error,
                   pipeline_vars, prev_run, list_label>>

PostprocessLabel ==
    /\ pc = "labelled"
    /\ final_label' = PostprocessFinalLabel(final_label)
    /\ pc' = "postprocessed"
    /\ UNCHANGED <<main_df, matching_threshold, matching_algorithms, working_df, label_pairs,
                   similarities, similarity_df, clustered_df, progress, error,
                   pipeline_vars, prev_run, list_label>>

LabelInit ==
    /\ list_label \in SeqUpTo(MemberTexts, MaxMembers) \ {<< >>}
    /\ final_label = NaN
    /\ pc = "label"
    /\ main_df = << >>
    /\ \E c \in PipelineConfigs : matching_threshold = c[1] /\ matching_algorithms = c[2]
    /\ working_df = << >>
    /\ label_pairs = << >>
    /\ similarities = << >>
    /\ similarity_df = << >>
    /\ clustered_df = << >>
    /\ progress = "none"
    /\ error = "None"
    /\ data_source = "none"
    /\ source_file = << >>
    /\ rejected_data_df = << >>
    /\ dict_label = << >>
    /\ prev_run = NoRun

LabelNext == FindCommonWords \/ PostprocessLabel

LabelSpec == LabelInit /\ [][LabelNext]_vars

(* The words of a text: the maximal runs of characters other than the      *)
(* space, from left to right.                                              *)
WordStarts(s) == {i \in DOMAIN s : s[i] # " " /\ (i = 1 \/ s[i - 1] = " ")}

WordFrom(s, i) ==
    SubSeq(s, i, CHOOSE e \in i..Len(s) :
                    /\ \A k \in i..e : s[k] # " "
                    /\ (e = Len(s) \/ s[e + 1] = " "))

WordsOf(s) == {WordFrom(s, i) : i \in WordStarts(s)}

InEveryMember(w) ==
    \A m \in DOMAIN list_label : \E v \in WordsOf(list_label[m]) : Lower(v) = Lower(w)

RECURSIVE AllWords(_, _)
AllWords(s, i) ==
    IF i > Len(s) THEN << >>
    ELSE IF i \in WordStarts(s) THEN <<WordFrom(s, i)>> \o AllWords(s, i + 1)
    ELSE AllWords(s, i + 1)

RECURSIVE KeptWords(_, _)
KeptWords(s, i) ==
    IF i > Len(s) THEN << >>
    ELSE IF i \in WordStarts(s) /\ InEveryMember(WordFrom(s, i))
    THEN <<WordFrom(s, i)>> \o KeptWords(s, i + 1)
    ELSE KeptWords(s, i + 1)

RECURSIVE SingleSpaced(_)
SingleSpaced(words) ==
    IF words = << >> THEN << >>
    ELSE IF Len(words) = 1 THEN words[1]
    ELSE SingleSpaced(SubSeq(words, 1, Len(words) - 1)) \o <<" ">> \o words[Len(words)]

RECURSIVE IsSubsequence(_, _)
IsSubsequence(a, b) ==
    IF a = << >> THEN TRUE
    ELSE IF b = << >> THEN FALSE
    ELSE IF Head(a) = Head(b) THEN IsSubsequence(Tail(a), Tail(b))
    ELSE IsSubsequence(a, Tail(b))

(* C13: for a non-empty member list, find_common_words_with_order returns  *)
(* the words of the first member, in their order and casing, joined by     *)
(* single spaces, keeping exactly the words whose lowercase form is a word *)
(* of every member in lowercase; the example of the two 'Rotation Benne'   *)
(* labels gives 'Rotation Benne'.                                          *)
C13_CanonicalLabel ==
    pc = "labelled"
    => LET kept == KeptWords(list_label[1], 1)
       IN /\ final_label = SingleSpaced(kept)
          /\ IsSubsequence(AllWords(final_label, 1), AllWords(list_label[1], 1))
          /\ \A w \in WordsOf(final_label) : InEveryMember(w)
          /\ list_label = <<Text("Rotation Benne 10m3"), Text("Rotation Benne 10 m3")>>
             => final_label = Text("Rotation Benne")

C13_Witness ==
    /\ pc = "labelled"
    /\ list_label = <<Text("Rotation Benne 10m3"), Text("rotation BENNE"), Text("Benne Rotation")>>
    /\ final_label = Text("Rotation Benne")

NoCommonWord == \A w \in WordsOf(list_label[1]) : ~InEveryMember(w)

(* C14: when no word is common to all the member labels of a cluster, as   *)
(* when one member is empty, the canonical label is the empty string, not  *)
(* a member's label, and postprocess_final_label leaves it empty.          *)
C14_EmptyIntersection ==
    (pc \in {"labelled", "postprocessed"} /\ NoCommonWord) => final_label = Empty

C14_Witness ==
    /\ pc = "postprocessed"
    /\ Len(list_label) >= 2
    /\ list_label[1] = Text("Rotation Benne 10m3")
    /\ Text("") \in Range(list_label)
    /\ final_label = Empty

----------------------------------------------------------------------------
(* The run of DataProcessor.process on a file made of the three labels     *)
(* 'Collecte OM 10L', 'Collecte OM 10 L' and 'Transport Benne', with the   *)
(* normalized Levenshtein similarity at threshold 0.9.                     *)

ScenarioRows ==
    {FileRow(NaN, Text("Collecte OM 10L")),
     FileRow(NaN, Text("Collecte OM 10 L")),
     FileRow(NaN, Text("Transport Benne"))}

ScenarioConfigs == {<<Frac(9, 10), <<LEVENSHTEIN>> >>}

ScenarioInit ==
    /\ data_source \in {CLEAR, CCAP}
    /\ source_file \in SeqUpTo(ScenarioRows, MaxFileRows)
    /\ \E c \in ScenarioConfigs : matching_threshold = c[1] /\ matching_algorithms = c[2]
    /\ main_df = << >>
    /\ working_df = << >>
    /\ label_pairs = << >>
    /\ similarities = << >>
    /\ similarity_df = << >>
    /\ clustered_df = << >>
    /\ rejected_data_df = << >>
    /\ dict_label = << >>
    /\ prev_run = NoRun
    /\ list_label = << >>
    /\ final_label = NaN
    /\ progress = "none"
    /\ error = "None"
    /\ pc = "load"

ScenarioNext ==
    LoadData \/ CleanseData \/ CreateMatchedDataframe \/ ProcessClusters \/ RenameClusters

ScenarioSpec == ScenarioInit /\ [][ScenarioNext]_vars

ScenarioFile ==
    <<FileRow(NaN, Text("Collecte OM 10L")),
      FileRow(NaN, Text("Collecte OM 10 L")),
      FileRow(NaN, Text("Transport Benne"))>>

ScenarioLabel(k) == Lower(ProcessLabel(data_source, ScenarioFile[k].commercial))

RowOfKey(k) == main_df[CHOOSE i \in DOMAIN main_df : main_df[i].key = k]

ScenarioPairsRetained ==
    /\ pc # "failed"
    /\ RetainedSet = {{ScenarioLabel(1), ScenarioLabel(2)}}
    /\ Len(similarity_df) = 1

ScenarioClusters ==
    /\ Partition(main_df) = {{0, 1}, {2}}
    /\ RowOfKey(0).cluster_size = 2
    /\ RowOfKey(1).cluster_size = 2
    /\ RowOfKey(2).cluster_size = 1

(* C15: on the three labels 'Collecte OM 10L', 'Collecte OM 10 L' and      *)
(* 'Transport Benne' with Levenshtein at 0.9, only the pair of the first   *)
(* two labels is retained, and the run ends with two clusters: the first   *)
(* two records, of size 2, labelled with their common words, and the third *)
(* record alone with cluster size 1.                                       *)
C15_Scenario ==
    (source_file = ScenarioFile /\ pc \notin {"load", "loaded", "call"})
    => /\ ScenarioPairsRetained
       /\ pc \in {"clustered", "renamed"} => ScenarioClusters
       /\ pc = "renamed" => /\ RowOfKey(0).final_label = Text("Collecte OM")
                            /\ RowOfKey(1).final_label = Text("Collecte OM")

(* The part of C15 about the retained pair alone.                          *)
ScenarioOnlyFirstPair ==
    (source_file = ScenarioFile /\ pc \notin {"load", "loaded", "call"}) => ScenarioPairsRetained

OutputRows(k) == {i \in DOMAIN main_df : main_df[i].key = k}

(* C16: after a completed run of DataProcessor.process every record read   *)
(* from the input is in the output exactly once, with its _unicity_key and *)
(* its text unchanged; the rejected CLEAR rows, those matching both        *)
(* patterns included, come back exactly once, and the merge on the cluster *)
(* id neither drops nor duplicates a row.                                  *)
C16_NoRecordLost ==
    pc = "renamed"
    => /\ Len(main_df) = Len(source_file)
       /\ \A k \in 0..(Len(source_file) - 1) :
             /\ Cardinality(OutputRows(k)) = 1
             /\ \A i \in OutputRows(k) :
                   main_df[i].commercial = LoadedDf(source_file)[k + 1].commercial

C16_Witness ==
    /\ pc = "renamed"
    /\ data_source = CLEAR
    /\ Len(main_df) = 3
    /\ \E i \in DOMAIN main_df :
          /\ IsNePlusUtiliser(main_df[i].label)
          /\ IsDryrun(main_df[i].label)
          /\ main_df[i].raison_rejet = "DRYRUN"
    /\ Cardinality({i \in DOMAIN main_df : main_df[i].cluster_id # NaN}) = 2

(* C17: after process_clusters the cluster_size of every record is the     *)
(* number of records of the full data set, duplicates of a label counted   *)
(* one by one, that carry the record's cluster id; it is at least 1 and    *)
(* the same for all the members of a cluster.                              *)
C17_SizeIsMemberCount ==
    Done => \A i \in Rows :
              /\ main_df[i].cluster_size >= 1
              /\ main_df[i].cluster_size = Cardinality(Members(main_df[i].cluster_id))
              /\ \A j \in Members(main_df[i].cluster_id) :
                    main_df[j].cluster_size = main_df[i].cluster_size

(* The same statement for the records that received a cluster id.          *)
SizeIsMemberCountOfClustered ==
    Done => \A i \in Rows :
              main_df[i].cluster_id # NaN
              => /\ main_df[i].cluster_size >= 1
                 /\ main_df[i].cluster_size = Cardinality(Members(main_df[i].cluster_id))

(* C18: for the same records and the same qualifying pairs, a call on the  *)
(* rows in another order, which changes the order in which the labels are  *)
(* enumerated and the pairs processed, ends with the same partition of the *)
(* records into clusters.                                                  *)
C18_OrderIndependent ==
    SecondRunDone("reordered")
    => /\ RetainedSet = prev_run.retained
       /\ Partition(main_df) = prev_run.partition

(* The part of C18 about the retained pairs alone.                         *)
RetainedOrderIndependent ==
    SecondRunDone("reordered") => RetainedSet = prev_run.retained

====
